---------------------------- MODULE Spec2Model ----------------------------
(***************************************************************************)
(* Model of src/cortex_agents.py: the search-only Cortex bridge.           *)
(*                                                                         *)
(*   detect_japanese        the language gate                              *)
(*   process_sse_response   the SSE decoder (frame reader, delta           *)
(*                          extractor, content accumulator)                *)
(*   run_cortex_search      the orchestrator: gate, streaming POST,        *)
(*                          status check, decoder, scoped resources,       *)
(*                          exception handler                              *)
(*                                                                         *)
(* A Python str is a sequence of code points.  A decoded JSON value is a   *)
(* tagged record.  The text of a JSON document on the wire is one code     *)
(* above the Unicode range, and json.loads is the table JsonTexts from     *)
(* those codes to what the library does with the text; every other        *)
(* payload is not JSON.                                                    *)
(***************************************************************************)
EXTENDS Integers, Sequences, FiniteSets, TLC

(***************************************************************************)
(* Bounds of the model.                                                    *)
(***************************************************************************)
\* the most lines one connection delivers before the upstream closes it
MaxLines == 3

(***************************************************************************)
(* Python strings used by the program, as code points.                     *)
(***************************************************************************)
S_empty == << >>
\* "data:"   (lines 67, 69)
S_data == <<100, 97, 116, 97, 58>>
\* "[DONE]"  (line 70)
S_done == <<91, 68, 79, 78, 69, 93>>
\* "text"    (line 82)
S_text == <<116, 101, 120, 116>>
\* "tool_results"  (line 84)
S_tool_results == <<116, 111, 111, 108, 95, 114, 101, 115, 117, 108, 116, 115>>
\* "json"    (line 86)
S_json == <<106, 115, 111, 110>>

\* the characters str.strip() removes: tab, LF, VT, FF, CR, FS..US, space
Whitespace == {9, 10, 11, 12, 13, 28, 29, 30, 31, 32}

(***************************************************************************)
(* JSON values as json.loads builds them.                                  *)
(***************************************************************************)
JNull == [t |-> "null"]
JBool(b) == [t |-> "bool", b |-> b]
JNum(n) == [t |-> "num", n |-> n]
JStr(s) == [t |-> "str", s |-> s]
JArr(e) == [t |-> "arr", e |-> e]
JObj(f) == [t |-> "obj", f |-> f]
\* the dict with no keys
NoFields == [k \in {} |-> JNull]

\* bool(v): None, False, 0, "", [] and {} are falsy
Truthy(v) ==
    CASE v.t = "null" -> FALSE
      [] v.t = "bool" -> v.b
      [] v.t = "num"  -> v.n # 0
      [] v.t = "str"  -> v.s # << >>
      [] v.t = "arr"  -> v.e # << >>
      [] v.t = "obj"  -> DOMAIN v.f # {}

\* isinstance(v, dict); only a dict has the method .get
IsDict(v) == v.t = "obj"

\* d.get(k, default) for a dict d
DictGet(d, k, default) == IF k \in DOMAIN d.f THEN d.f[k] ELSE default

\* `for x in v` is defined for a list, a str and a dict
Iterable(v) == v.t \in {"arr", "str", "obj"}

\* what `for x in v` yields: the elements of a list, the characters of a
\* str, the keys of a dict (keys are strs; their characters are never read)
IterItems(v) ==
    CASE v.t = "arr" -> v.e
      [] v.t = "str" -> [n \in 1..Len(v.s) |-> JStr(<<v.s[n]>>)]
      [] v.t = "obj" -> [n \in 1..Cardinality(DOMAIN v.f) |-> JStr(S_empty)]

(***************************************************************************)
(* Exceptions.  NoExc is "nothing raised".  All of them are subclasses of  *)
(* Exception.                                                              *)
(***************************************************************************)
NoExc == "none"
\* raised by the decoder's own field accesses
DecodeExcs == {"AttributeError", "KeyError", "TypeError", "RecursionError"}
\* raised by httpx while connecting, reading the body or reading the stream
TransportExcs == {"ConnectError", "ReadTimeout", "ReadError"}
\* raised by error_text.decode() on a body that is not UTF-8
BodyExcs == {"UnicodeDecodeError"}


(***************************************************************************)
(* str operations of the frame reader (lines 63-71).                       *)
(***************************************************************************)
RECURSIVE LStrip(_)
LStrip(s) == IF s # << >> /\ Head(s) \in Whitespace THEN LStrip(Tail(s)) ELSE s

RECURSIVE RStrip(_)
RStrip(s) ==
    IF s # << >> /\ s[Len(s)] \in Whitespace
    THEN RStrip(SubSeq(s, 1, Len(s) - 1))
    ELSE s

\* s.strip()
Strip(s) == RStrip(LStrip(s))

\* s.startswith(p)
StartsWith(s, p) == Len(s) >= Len(p) /\ SubSeq(s, 1, Len(p)) = p

\* s[n:]
SliceFrom(s, n) == SubSeq(s, n + 1, Len(s))

(***************************************************************************)
(* json.loads.  A JSON text is one code above the Unicode range; the       *)
(* table gives, for each text, the value it denotes ("ok"), or that the    *)
(* text is not JSON ("bad": json.JSONDecodeError), or that it is not JSON  *)
(* and nests deeper than the interpreter's recursion limit before the      *)
(* syntax error is met ("deep": RecursionError, which is not a             *)
(* JSONDecodeError).                                                       *)
(***************************************************************************)
MaxCodePoint == 17 * 65536 - 1
DocCode(k) == MaxCodePoint + k

\* single characters used in the sample documents
Ch_A == <<65>>
Ch_B == <<66>>
Ch_C == <<67>>
Ch_D == <<68>>
Ch_E == <<69>>
Ch_x == <<120>>

\* {"type": "text", "text": s}
TextItem(s) == JObj([type |-> JStr(S_text), text |-> JStr(s)])
\* {"delta": {"content": items}}
TopDelta(items) == JObj([delta |-> JObj([content |-> JArr(items)])])
\* {"source_id": a, "doc_id": d}
SearchResult(a, d) == JObj([source_id |-> JStr(a), doc_id |-> JStr(d)])

\* the payload of the search tool: text, a sql field, three search results
\* of which two are identical and one has no source_id
ToolJson ==
    JObj([text |-> JStr(Ch_B),
          sql |-> JStr(<<83>>),
          searchResults |-> JArr(<<SearchResult(Ch_A, <<49>>),
                                   SearchResult(Ch_A, <<49>>),
                                   JObj([doc_id |-> JStr(<<50>>)])>>)])

\* {"type": "tool_results", "tool_results": {"content": entries}}
ToolResults(entries) ==
    JObj([type |-> JStr(S_tool_results),
          tool_results |-> JObj([content |-> JArr(entries)])])

Parsed(v) == [syn |-> "ok", v |-> v]

JsonTexts == <<
    \* 1: {"delta":{"content":[{"type":"text","text":"A"}]}}
    Parsed(TopDelta(<<TextItem(Ch_A)>>)),
    \* 2: {"data":{"delta":{"content":[{"type":"tool_results","tool_results":
    \*    {"content":[{"type":"image"},{"type":"json","json":{...}}]}},
    \*    {"type":"thinking"},{"type":"text"},{"type":"text","text":"C"}]}}}
    Parsed(JObj([data |-> JObj([delta |-> JObj([content |-> JArr(<<
        ToolResults(<<JObj([type |-> JStr(<<105>>)]),
                      JObj([type |-> JStr(S_json), json |-> ToolJson])>>),
        JObj([type |-> JStr(<<116>>)]),
        JObj([type |-> JStr(S_text)]),
        TextItem(Ch_C)>>)])])])),
    \* 3: {"delta":"x","data":{"delta":{"content":[{"type":"text","text":"D"}]}}}
    Parsed(JObj([delta |-> JStr(Ch_x),
                 data |-> TopDelta(<<TextItem(Ch_D)>>)])),
    \* 4: {"delta":{},"data":{"delta":{"content":[{"type":"text","text":"E"}]}}}
    Parsed(JObj([delta |-> JObj(NoFields),
                 data |-> TopDelta(<<TextItem(Ch_E)>>)])),
    \* 5: {"delta":{"role":"x"}}            a delta without content
    Parsed(JObj([delta |-> JObj([role |-> JStr(Ch_x)])])),
    \* 6: {"event":"x"}                     no delta anywhere
    Parsed(JObj([event |-> JStr(Ch_x)])),
    \* 7: [1]                               valid JSON, not an object
    Parsed(JArr(<<JNum(1)>>)),
    \* 8: {"data":"x"}                      data is not an object
    Parsed(JObj([data |-> JStr(Ch_x)])),
    \* 9: {"delta":{"content":[{"type":"tool_results"}]}}
    Parsed(TopDelta(<<JObj([type |-> JStr(S_tool_results)])>>)),
    \* 10: {"delta":{"content":[{"type":"tool_results","tool_results":
    \*     {"content":[{"type":"json"}]}}]}}
    Parsed(TopDelta(<<ToolResults(<<JObj([type |-> JStr(S_json)])>>)>>)),
    \* 11: {"delta":{"content":[{"type":"text","text":null}]}}
    Parsed(TopDelta(<<JObj([type |-> JStr(S_text), text |-> JNull])>>)),
    \* 12: {"delta":{"content":["x"]}}      a content item that is not a mapping
    Parsed(TopDelta(<<JStr(Ch_x)>>)),
    \* 13: {"delta":                        truncated: json.JSONDecodeError
    [syn |-> "bad", v |-> JNull],
    \* 14: [[[[[[ ... (100000 times)        not JSON: RecursionError
    [syn |-> "deep", v |-> JNull]
  >>

\* json.loads(payload): the outcome for the text, JSONDecodeError for
\* anything that is not a JSON text ("", "[DONE]", "x", ...)
json_loads(payload) ==
    IF Len(payload) = 1 /\ payload[1] > MaxCodePoint
       /\ payload[1] - MaxCodePoint <= Len(JsonTexts)
    THEN JsonTexts[payload[1] - MaxCodePoint]
    ELSE [syn |-> "bad", v |-> JNull]

(***************************************************************************)
(* The accumulator of process_sse_response: the locals text and citations  *)
(* (line 61), the exception that ended the loop (NoExc while it runs) and  *)
(* the number of json.loads calls made so far.                             *)
(***************************************************************************)
NewAcc == [text |-> S_empty, citations |-> << >>, exc |-> NoExc, parses |-> 0]

Raise(acc, e) == [acc EXCEPT !.exc = e]

\* text = v instead of text += v
AssignText(acc, v) ==
    IF v.t = "str" THEN [acc EXCEPT !.text = v.s]
    ELSE Raise(acc, "TypeError")

\* text += v   (lines 83, 88): TypeError unless v is a str
AppendText(acc, v) ==
    IF v.t = "str" THEN [acc EXCEPT !.text = @ \o v.s]
    ELSE Raise(acc, "TypeError")

\* lines 91-94
Citation(s) ==
    [source_id |-> DictGet(s, "source_id", JNull),
     doc_id    |-> DictGet(s, "doc_id", JNull)]

\* a loop that skips a citation already in the list
RECURSIVE CitationLoopDedup(_, _)
CitationLoopDedup(acc, ss) ==
    IF ss = << >> \/ acc.exc # NoExc THEN acc
    ELSE IF ~IsDict(Head(ss)) THEN Raise(acc, "AttributeError")
    ELSE IF \E n \in 1..Len(acc.citations) : acc.citations[n] = Citation(Head(ss))
    THEN CitationLoopDedup(acc, Tail(ss))
    ELSE CitationLoopDedup([acc EXCEPT !.citations = Append(@, Citation(Head(ss)))],
                           Tail(ss))

\* lines 90-94: for s in j.get("searchResults", [])
RECURSIVE CitationLoop(_, _)
CitationLoop(acc, ss) ==
    IF ss = << >> \/ acc.exc # NoExc THEN acc
    ELSE IF ~IsDict(Head(ss)) THEN Raise(acc, "AttributeError")
    ELSE CitationLoop([acc EXCEPT !.citations = Append(@, Citation(Head(ss)))],
                      Tail(ss))

\* lines 86-94: one entry of item["tool_results"]["content"]
ProcessResult(acc, result) ==
    IF ~IsDict(result) THEN Raise(acc, "AttributeError")
    ELSE IF DictGet(result, "type", JNull) # JStr(S_json) THEN acc
    ELSE IF "json" \notin DOMAIN result.f THEN Raise(acc, "KeyError")
    ELSE LET j == result.f["json"] IN
         IF ~IsDict(j) THEN Raise(acc, "AttributeError")
         ELSE LET acc1 == AppendText(acc, DictGet(j, "text", JStr(S_empty)))
                  sr   == DictGet(j, "searchResults", JArr(<< >>))
              IN  IF acc1.exc # NoExc THEN acc1
                  ELSE IF ~Iterable(sr) THEN Raise(acc1, "TypeError")
                  ELSE CitationLoop(acc1, IterItems(sr))

\* line 85: for result in item["tool_results"].get("content", [])
RECURSIVE ResultLoop(_, _)
ResultLoop(acc, rs) ==
    IF rs = << >> \/ acc.exc # NoExc THEN acc
    ELSE ResultLoop(ProcessResult(acc, Head(rs)), Tail(rs))

\* lines 81-94: one content item of the delta
ProcessItem(acc, item) ==
    IF ~IsDict(item) THEN Raise(acc, "AttributeError")
    ELSE LET t == DictGet(item, "type", JNull) IN
         IF t = JStr(S_text)
         THEN AppendText(acc, DictGet(item, "text", JStr(S_empty)))
         ELSE IF t = JStr(S_tool_results)
         THEN IF "tool_results" \notin DOMAIN item.f THEN Raise(acc, "KeyError")
              ELSE LET tr == item.f["tool_results"] IN
                   IF ~IsDict(tr) THEN Raise(acc, "AttributeError")
                   ELSE LET c == DictGet(tr, "content", JArr(<< >>)) IN
                        IF ~Iterable(c) THEN Raise(acc, "TypeError")
                        ELSE ResultLoop(acc, IterItems(c))
         ELSE acc

\* a loop that stops at the first item of an unknown kind (break instead of
\* falling through)
RECURSIVE ContentLoopBreak(_, _)
ContentLoopBreak(acc, items) ==
    IF items = << >> \/ acc.exc # NoExc THEN acc
    ELSE IF IsDict(Head(items))
            /\ DictGet(Head(items), "type", JNull)
                  \notin {JStr(S_text), JStr(S_tool_results)}
    THEN acc
    ELSE ContentLoopBreak(ProcessItem(acc, Head(items)), Tail(items))

\* line 80: for item in delta.get("content", [])
RECURSIVE ContentLoop(_, _)
ContentLoop(acc, items) ==
    IF items = << >> \/ acc.exc # NoExc THEN acc
    ELSE ContentLoop(ProcessItem(acc, Head(items)), Tail(items))

\* line 77: delta = evt.get("delta") or evt.get("data", {}).get("delta")
\* the value bound to delta, or the exception the expression raises
ExtractDelta(evt) ==
    IF ~IsDict(evt) THEN [exc |-> "AttributeError", delta |-> JNull]
    ELSE LET top == DictGet(evt, "delta", JNull) IN
         IF Truthy(top) THEN [exc |-> NoExc, delta |-> top]
         ELSE LET data == DictGet(evt, "data", JObj(NoFields)) IN
              IF ~IsDict(data) THEN [exc |-> "AttributeError", delta |-> JNull]
              ELSE [exc |-> NoExc, delta |-> DictGet(data, "delta", JNull)]

\* lines 77-94: one decoded event
ProcessEvent(acc, evt) ==
    LET d == ExtractDelta(evt) IN
    IF d.exc # NoExc THEN Raise(acc, d.exc)
    ELSE IF ~IsDict(d.delta) THEN acc
    ELSE LET content == DictGet(d.delta, "content", JArr(<< >>)) IN
         IF ~Iterable(content) THEN Raise(acc, "TypeError")
         ELSE ContentLoop(acc, IterItems(content))

\* lines 72-75: try: evt = json.loads(payload) / except json.JSONDecodeError
DecodeFrame(acc, payload) ==
    LET r    == json_loads(payload)
        acc1 == [acc EXCEPT !.parses = @ + 1]
    IN  CASE r.syn = "bad"  -> acc1
          [] r.syn = "deep" -> Raise(acc1, "RecursionError")
          [] r.syn = "ok"   -> ProcessEvent(acc1, r.v)

\* a prefix test that ignores case: "DATA:" counts as a data line
IsDataLineAnyCase(line) ==
    StartsWith(line, S_data) \/ StartsWith(line, <<68, 65, 84, 65, 58>>)

\* line 67: raw_line.startswith("data:")
IsDataLine(line) == StartsWith(line, S_data)

\* only the empty payload is dropped; "[DONE]" goes to json.loads
IsSentinelEmptyOnly(payload) == payload = S_empty

\* line 70: payload in ("", "[DONE]")
IsSentinel(payload) == payload \in {S_empty, S_done}

\* line 69: payload = raw_line[len("data:"):].strip()
PayloadOf(line) == Strip(SliceFrom(line, Len(S_data)))

\* lines 63-94: the body of the loop for one line of the stream
ProcessLine(acc, raw_line) ==
    IF raw_line = S_empty THEN acc
    ELSE LET line == Strip(raw_line) IN
         IF ~IsDataLine(line) THEN acc
         ELSE IF IsSentinel(PayloadOf(line)) THEN acc
         ELSE DecodeFrame(acc, PayloadOf(line))

\* lines 61-95: process_sse_response over a whole stream that ends normally
RECURSIVE Fold(_, _)
Fold(acc, ls) ==
    IF ls = << >> \/ acc.exc # NoExc THEN acc
    ELSE Fold(ProcessLine(acc, Head(ls)), Tail(ls))

process_sse_response(ls) == Fold(NewAcc, ls)


(***************************************************************************)
(* detect_japanese (lines 43-54): re.search of the character class         *)
(* [\u3040-\u309F\u30A0-\u30FF\u4E00-\u9FAF].                             *)
(***************************************************************************)
InPattern(c) ==
    \/ (12352 <= c /\ c <= 12447)      \* \u3040-\u309F
    \/ (12448 <= c /\ c <= 12543)      \* \u30A0-\u30FF
    \/ (19968 <= c /\ c <= 40879)      \* \u4E00-\u9FAF

detect_japanese(text) == \E n \in 1..Len(text) : InPattern(text[n])

(***************************************************************************)
(* The inputs of the model.                                                *)
(***************************************************************************)
\* the two invocations a host can have in flight
Invs == {1, 2}

\* queries: "S"; hiragana NO; katakana KA; "S" + kanji U+9FAF;
\* halfwidth katakana KA (U+FF76)
Queries == {<<83>>, <<12398>>, <<12459>>, <<83, 40879>>, <<65398>>}

\* HTTP status codes the agent endpoint answers with
Statuses == {200, 204, 500}

\* error bodies, decoded: "" and "x"
Bodies == {S_empty, Ch_x}

\* "data:" + DocCode(k), with a space after the colon
DataLine(k) == S_data \o <<32, DocCode(k)>>

\* the lines the upstream can deliver
Lines ==
    {DataLine(k) : k \in 1..Len(JsonTexts)}
    \cup {S_empty,                                  \* ""
          <<32>>,                                   \* " "
          <<58, 32, 120>>,                          \* ": x"   (SSE comment)
          <<68, 65, 84, 65, 58, DocCode(1)>>,       \* "DATA:" + text 1
          S_data,                                   \* "data:"
          <<32>> \o S_data \o <<32>> \o S_done \o <<32>>,  \* " data: [DONE] "
          <<9>> \o DataLine(1) \o <<13>>}           \* "\tdata: " + text 1 + "\r"

(***************************************************************************)
(* The values run_cortex_search returns (lines 155-162, 207, 212,          *)
(* 214-217).  keys is the set of fields of the returned dict.  Raised is   *)
(* an exception leaving the call instead of a value.                       *)
(***************************************************************************)
NoResult == [kind |-> "none"]

TranslationRequired(q) ==
    [kind |-> "value",
     keys |-> {"status", "error", "original_query", "instruction",
               "example", "note"},
     status |-> "TRANSLATION_REQUIRED",
     original_query |-> q]

\* {"error": f"HTTP {resp.status_code}: {error_text.decode()}"}
HttpError(code, body) ==
    [kind |-> "value", keys |-> {"error"},
     error |-> [fmt |-> "HTTP", code |-> code, body |-> body]]

\* {"error": f"Request failed: {e}"}
RequestFailed(e) ==
    [kind |-> "value", keys |-> {"error"},
     error |-> [fmt |-> "Request failed", exc |-> e]]

\* the shape of the full-agent flavour:
\* {"text": text, "citations": citations, "sql": sql, "results": None}
SuccessWithSql(text, citations) ==
    [kind |-> "value", keys |-> {"text", "citations", "sql", "results"},
     text |-> text, citations |-> citations]

\* {"text": text, "citations": citations}
Success(text, citations) ==
    [kind |-> "value", keys |-> {"text", "citations"},
     text |-> text, citations |-> citations]

Raised(e) == [kind |-> "raised", exc |-> e]

(***************************************************************************)
(* State.  inv[i] is the state of invocation i of run_cortex_search:       *)
(*   pc        where the coroutine stands                                  *)
(*   query     its argument                                                *)
(*   client    the httpx.AsyncClient of line 197 is open                   *)
(*   conn      the streaming response of line 198 is open                  *)
(*   status    resp.status_code (0 before a response arrived)              *)
(*   lines     the lines resp.aiter_lines() has yielded so far             *)
(*   acc       the locals of process_sse_response                          *)
(*   decoded   process_sse_response was called                             *)
(*   tuple     what process_sse_response returned (line 95)                *)
(*   exc       the exception in flight inside the try block                *)
(*   ret       the value of the return statement of line 207               *)
(*   requests  outbound HTTP requests issued                               *)
(*   idle      seconds the pending read has waited (timed specification)   *)
(*   result    what the call gave its caller                               *)
(* callers is the set of invocations the host makes.                       *)
(***************************************************************************)
VARIABLES inv, callers

vars == <<inv, callers>>

NoTuple == [set |-> FALSE]

Idle ==
    [pc |-> "idle", query |-> S_empty, client |-> FALSE, conn |-> FALSE,
     status |-> 0, lines |-> << >>, acc |-> NewAcc, decoded |-> FALSE,
     tuple |-> NoTuple, exc |-> NoExc, ret |-> NoResult, requests |-> 0,
     idle |-> 0, result |-> NoResult]

Init ==
    /\ inv = [i \in Invs |-> Idle]
    /\ callers = {1}

\* line 124: the host calls run_cortex_search(q)
Call(s, q) == [s EXCEPT !.pc = "gate", !.query = q]

\* lines 154-193: the language gate, then the request is built
Gate(s) ==
    IF detect_japanese(s.query)
    THEN [s EXCEPT !.pc = "done", !.result = TranslationRequired(s.query)]
    ELSE [s EXCEPT !.pc = "open"]

\* line 197: async with httpx.AsyncClient(timeout=60.0) as client
OpenClient(s) == [s EXCEPT !.pc = "send", !.client = TRUE]

\* a failed POST is sent once more before the exception is let through
SendRequestRetry(s, outcome) ==
    IF "exc" \in DOMAIN outcome
    THEN IF s.requests = 0
         THEN [s EXCEPT !.requests = @ + 1]
         ELSE [s EXCEPT !.pc = "exit", !.requests = @ + 1, !.exc = outcome.exc]
    ELSE [s EXCEPT !.pc = "status", !.requests = @ + 1, !.conn = TRUE,
                   !.status = outcome.code]

\* lines 198-204: the streaming POST; it answers with a status line or
\* raises a transport exception
SendRequest(s, outcome) ==
    IF "exc" \in DOMAIN outcome
    THEN [s EXCEPT !.pc = "exit", !.requests = @ + 1, !.exc = outcome.exc]
    ELSE [s EXCEPT !.pc = "status", !.requests = @ + 1, !.conn = TRUE,
                   !.status = outcome.code]

\* lines 205-207: the body of a non-200 answer is read and decoded, the
\* return value is built; aread() or decode() can raise
ErrorStatus(s, outcome) ==
    IF "exc" \in DOMAIN outcome
    THEN [s EXCEPT !.pc = "exit", !.exc = outcome.exc]
    ELSE [s EXCEPT !.pc = "exit", !.ret = HttpError(s.status, outcome.body)]

\* text and citations kept at module level: a call starts from what another
\* call's decoder holds instead of from "", []
BeginStreamSharedAcc(s) ==
    LET others == {j \in Invs : inv[j] # s /\ inv[j].decoded
                                 /\ inv[j].acc.exc = NoExc}
    IN  [s EXCEPT !.pc = "stream", !.decoded = TRUE,
                  !.acc = IF others = {} THEN NewAcc
                          ELSE inv[CHOOSE j \in others : TRUE].acc]

\* line 210 entering process_sse_response, line 61
BeginStream(s) == [s EXCEPT !.pc = "stream", !.decoded = TRUE, !.acc = NewAcc]

\* a decoder that takes data: [DONE] as the end of the stream and returns
RecvLineStopAtDone(s, l) ==
    IF Strip(l) = S_data \o <<32>> \o S_done
    THEN [s EXCEPT !.lines = Append(@, l), !.pc = "exit",
                   !.tuple = [set |-> TRUE, text |-> s.acc.text,
                              sql |-> S_empty, citations |-> s.acc.citations]]
    ELSE [s EXCEPT !.lines = Append(@, l),
                   !.acc = ProcessLine(s.acc, l),
                   !.exc = ProcessLine(s.acc, l).exc,
                   !.pc = IF ProcessLine(s.acc, l).exc # NoExc
                          THEN "exit" ELSE "stream"]

\* lines 62-94: aiter_lines yields one line and the loop body runs on it;
\* an exception of the body leaves process_sse_response
RecvLine(s, l) ==
    LET a == ProcessLine(s.acc, l) IN
    [s EXCEPT !.lines = Append(@, l),
              !.acc = a,
              !.exc = a.exc,
              !.pc = IF a.exc # NoExc THEN "exit" ELSE "stream"]

\* line 62: aiter_lines raises (connection lost, read timeout)
StreamFail(s, e) ==
    [s EXCEPT !.pc = "exit", !.exc = e, !.acc = Raise(@, e)]

\* a decoder that retains the sql field of the tool results (here the one
\* of JSON text 2) instead of discarding it
ReturnTupleKeepSql(s) ==
    [set |-> TRUE, text |-> s.acc.text,
     sql |-> IF \E n \in 1..Len(s.lines) : s.lines[n] = DataLine(2)
             THEN ToolJson.f["sql"].s ELSE S_empty,
     citations |-> s.acc.citations]

\* line 95: return text, "", citations
ReturnTuple(s) ==
    [set |-> TRUE, text |-> s.acc.text, sql |-> S_empty,
     citations |-> s.acc.citations]

\* lines 62, 95: the stream ends and process_sse_response returns
StreamEnd(s) == [s EXCEPT !.pc = "exit", !.tuple = ReturnTuple(s)]

\* only the client is closed; a response that was opened without its
\* context manager stays open
ReleaseClientOnly(s) == [s EXCEPT !.client = FALSE]

\* the two async with blocks are left (lines 197-198): response, then client
Release(s) == [s EXCEPT !.conn = FALSE, !.client = FALSE]

\* a handler that catches the transport errors only (except httpx.HTTPError)
CatchesTransportOnly(e) == e \in TransportExcs

\* line 211: except Exception
Catches(e) == e \in DecodeExcs \cup TransportExcs \cup BodyExcs

\* a handler that hands back what was accumulated next to the error
OutcomePartial(s) ==
    IF s.exc # NoExc
    THEN [kind |-> "value", keys |-> {"error", "text", "citations"},
          error |-> [fmt |-> "Request failed", exc |-> s.exc],
          text |-> s.acc.text, citations |-> s.acc.citations]
    ELSE IF s.ret # NoResult THEN s.ret
    ELSE Success(s.tuple.text, s.tuple.citations)

\* lines 207, 211-217: what the call gives its caller
Outcome(s) ==
    IF s.exc # NoExc
    THEN IF Catches(s.exc) THEN RequestFailed(s.exc) ELSE Raised(s.exc)
    ELSE IF s.ret # NoResult THEN s.ret
    ELSE Success(s.tuple.text, s.tuple.citations)

\* the with blocks are left, the handler runs, the call returns
ExitScopes(s) == [Release(s) EXCEPT !.pc = "done", !.result = Outcome(s)]

(***************************************************************************)
(* Actions.                                                                *)
(***************************************************************************)
Step(i, s) == inv' = [inv EXCEPT ![i] = s] /\ UNCHANGED callers

DoCall(i) ==
    /\ i \in callers /\ inv[i].pc = "idle"
    /\ \E q \in Queries : Step(i, Call(inv[i], q))

DoGate(i) == inv[i].pc = "gate" /\ Step(i, Gate(inv[i]))

DoOpenClient(i) == inv[i].pc = "open" /\ Step(i, OpenClient(inv[i]))

DoSendRequest(i) ==
    /\ inv[i].pc = "send"
    /\ \E o \in [exc : {"ConnectError", "ReadTimeout"}] \cup [code : Statuses] :
           Step(i, SendRequest(inv[i], o))

DoErrorStatus(i) ==
    /\ inv[i].pc = "status" /\ inv[i].status # 200
    /\ \E o \in [exc : {"ReadError", "ReadTimeout", "UnicodeDecodeError"}]
                    \cup [body : Bodies] :
           Step(i, ErrorStatus(inv[i], o))

\* the decoder is entered whatever the status is (line 205 missing)
DoBeginStreamAnyStatus(i) ==
    /\ inv[i].pc = "status"
    /\ Step(i, BeginStream(inv[i]))

DoBeginStream(i) ==
    /\ inv[i].pc = "status" /\ inv[i].status = 200
    /\ Step(i, BeginStream(inv[i]))

DoRecvLine(i) ==
    /\ inv[i].pc = "stream" /\ Len(inv[i].lines) < MaxLines
    /\ \E l \in Lines : Step(i, RecvLine(inv[i], l))

DoStreamFail(i) ==
    /\ inv[i].pc = "stream"
    /\ \E e \in {"ReadError", "ReadTimeout"} : Step(i, StreamFail(inv[i], e))

DoStreamEnd(i) == inv[i].pc = "stream" /\ Step(i, StreamEnd(inv[i]))

DoExitScopes(i) == inv[i].pc = "exit" /\ Step(i, ExitScopes(inv[i]))

Next ==
    \E i \in Invs :
        \/ DoCall(i)
        \/ DoGate(i)
        \/ DoOpenClient(i)
        \/ DoSendRequest(i)
        \/ DoErrorStatus(i)
        \/ DoBeginStream(i)
        \/ DoRecvLine(i)
        \/ DoStreamFail(i)
        \/ DoStreamEnd(i)
        \/ DoExitScopes(i)

Spec == Init /\ [][Next]_vars

(***************************************************************************)
(* Two invocations in flight at once.  The host (an asyncio event loop)    *)
(* interleaves them at their await points; each has its own upstream,      *)
(* which delivers lines of ConcLines.                                      *)
(***************************************************************************)
\* text "A"; the tool result with text, sql and citations; a tool_results
\* item without its field (raises KeyError)
ConcLines == {DataLine(1), DataLine(2), DataLine(9)}

InitConc ==
    /\ inv = [i \in Invs |-> Idle]
    /\ callers = Invs

DoRecvLineConc(i) ==
    /\ inv[i].pc = "stream" /\ Len(inv[i].lines) < MaxLines
    /\ \E l \in ConcLines : Step(i, RecvLine(inv[i], l))

NextConc ==
    \E i \in Invs :
        \/ DoCall(i)
        \/ DoGate(i)
        \/ DoOpenClient(i)
        \/ DoSendRequest(i)
        \/ DoErrorStatus(i)
        \/ DoBeginStream(i)
        \/ DoRecvLineConc(i)
        \/ DoStreamFail(i)
        \/ DoStreamEnd(i)
        \/ DoExitScopes(i)

SpecConc == InitConc /\ [][NextConc]_vars

(***************************************************************************)
(* Time.  Spec leaves time out: there a timeout may strike at any moment.  *)
(* httpx.AsyncClient(timeout=60.0) (line 197) sets the connect, read,      *)
(* write and pool timeouts to 60 seconds each; the read timeout bounds one *)
(* wait for data, it restarts whenever data arrives, and no timeout bounds *)
(* the whole request.  SpecLive counts the seconds the pending read of     *)
(* aiter_lines has waited: a line resets the count, and ReadTimeout is     *)
(* raised when the count reaches ReadTimeoutSecs.  The upstream is free to *)
(* send for ever: lines keeps the first MaxLines lines, what comes later   *)
(* are lines that leave the accumulator as it is (keep-alive comments,     *)
(* sentinels).                                                             *)
(***************************************************************************)
ReadTimeoutSecs == 60

\* an SSE comment (": x") as keep-alive, and the frame with text "A"
LiveLines == {<<58, 32, 120>>, DataLine(1)}

\* lines 62-94 with the clock: the pending read returns a line
RecvLineTimed(s, l) ==
    [RecvLine(s, l) EXCEPT
        !.idle = 0,
        !.lines = IF Len(s.lines) < MaxLines THEN Append(s.lines, l) ELSE s.lines]

\* one second passes while the read of line 62 waits
Tick(s) == [s EXCEPT !.idle = @ + 1]

DoRecvLineTimed(i) ==
    /\ inv[i].pc = "stream"
    /\ \E l \in LiveLines :
         /\ Len(inv[i].lines) < MaxLines \/ ProcessLine(inv[i].acc, l) = inv[i].acc
         /\ Step(i, RecvLineTimed(inv[i], l))

DoTick(i) ==
    /\ inv[i].pc = "stream" /\ inv[i].idle < ReadTimeoutSecs
    /\ Step(i, Tick(inv[i]))

\* the read timeout expires: aiter_lines raises httpx.ReadTimeout
DoReadTimeout(i) ==
    /\ inv[i].pc = "stream" /\ inv[i].idle = ReadTimeoutSecs
    /\ Step(i, StreamFail(inv[i], "ReadTimeout"))

\* the connection is lost: aiter_lines raises httpx.ReadError
DoStreamLost(i) ==
    /\ inv[i].pc = "stream"
    /\ Step(i, StreamFail(inv[i], "ReadError"))

\* the steps the event loop runs as soon as they are ready
ProgramStep(i) ==
    DoGate(i) \/ DoOpenClient(i) \/ DoBeginStream(i) \/ DoExitScopes(i)

NextLive ==
    \E i \in Invs :
        \/ DoCall(i)
        \/ DoGate(i)
        \/ DoOpenClient(i)
        \/ DoSendRequest(i)
        \/ DoErrorStatus(i)
        \/ DoBeginStream(i)
        \/ DoRecvLineTimed(i)
        \/ DoTick(i)
        \/ DoReadTimeout(i)
        \/ DoStreamLost(i)
        \/ DoStreamEnd(i)
        \/ DoExitScopes(i)

\* Fairness: the event loop runs a ready coroutine; a connect and a body
\* read end or time out; time passes; a due timeout is raised.  Nothing
\* obliges the upstream to stop sending or to close the stream.
FairLive ==
    \A i \in Invs :
        /\ WF_vars(ProgramStep(i))
        /\ WF_vars(DoSendRequest(i))
        /\ WF_vars(DoErrorStatus(i))
        /\ WF_vars(DoTick(i))
        /\ WF_vars(DoReadTimeout(i))

SpecLive == Init /\ [][NextLive]_vars /\ FairLive


(***************************************************************************)
(* Vocabulary of the properties.                                           *)
(***************************************************************************)
Done(i) == inv[i].pc = "done"

\* the returned value is a mapping with an error field
ErrorTagged(r) == r.kind = "value" /\ "error" \in r.keys

IsPrefix(a, b) == Len(a) <= Len(b) /\ SubSeq(b, 1, Len(a)) = a

Last(ls) == ls[Len(ls)]

\* invocation i consumes one line of its stream in this step
Consumes(i) == Len(inv'[i].lines) = Len(inv[i].lines) + 1

\* the line, trimmed, starts with "data:"
HasDataPrefix(l) ==
    LET t == Strip(l) IN Len(t) >= 5 /\ SubSeq(t, 1, 5) = <<100, 97, 116, 97, 58>>

\* the payload of a data line: the prefix stripped, trimmed again
FramePayload(l) == Strip(SubSeq(Strip(l), 6, Len(Strip(l))))

\* a data line whose payload is empty or the literal [DONE]
IsSentinelFrame(l) ==
    HasDataPrefix(l) /\ FramePayload(l) \in {<< >>, <<91, 68, 79, 78, 69, 93>>}

\* a data line that carries a payload for json.loads
IsFrame(l) == HasDataPrefix(l) /\ ~IsSentinelFrame(l)

\* a frame whose payload is not parsable as JSON
IsUnparsable(l) == IsFrame(l) /\ json_loads(FramePayload(l)).syn # "ok"

KeepsLine(l) == ~IsUnparsable(l)

\* the stream with its unparsable frames removed
RemoveUnparsable(ls) == SelectSeq(ls, KeepsLine)

\* what a caller of the decoder observes
Observed(acc) == [text |-> acc.text, citations |-> acc.citations, exc |-> acc.exc]

RECURSIVE Concat(_)
Concat(ss) == IF ss = << >> THEN << >> ELSE Head(ss) \o Concat(Tail(ss))

\* the content items of the delta carried by line l (none when l is not a
\* frame, is unparsable or carries no delta)
DeltaItems(l) ==
    IF ~IsFrame(l) \/ IsUnparsable(l) THEN << >>
    ELSE LET d == ExtractDelta(json_loads(FramePayload(l)).v) IN
         IF d.exc # NoExc \/ ~IsDict(d.delta) THEN << >>
         ELSE IterItems(DictGet(d.delta, "content", JArr(<< >>)))

HasTag(x, tag) == DictGet(x, "type", JNull) = JStr(tag)

IsJsonEntry(x) == HasTag(x, S_json)

\* the json payloads of the tool-result entries of a content item
JsonPayloads(item) ==
    IF ~HasTag(item, S_tool_results) THEN << >>
    ELSE LET es == SelectSeq(DictGet(item.f["tool_results"], "content",
                                     JArr(<< >>)).e, IsJsonEntry)
         IN  [n \in 1..Len(es) |-> es[n].f["json"]]

TextField(x) == IF "text" \in DOMAIN x.f THEN x.f["text"].s ELSE << >>

\* the text fields a content item contributes, in order
TextFields(item) ==
    IF HasTag(item, S_text) THEN <<TextField(item)>>
    ELSE [n \in 1..Len(JsonPayloads(item)) |-> TextField(JsonPayloads(item)[n])]

FieldOrNull(x, k) == IF k \in DOMAIN x.f THEN x.f[k] ELSE JNull

\* the citations of one json payload, one per searchResults entry
PayloadCitations(j) ==
    LET sr == IF "searchResults" \in DOMAIN j.f THEN j.f["searchResults"].e
              ELSE << >>
    IN  [n \in 1..Len(sr) |-> [source_id |-> FieldOrNull(sr[n], "source_id"),
                               doc_id    |-> FieldOrNull(sr[n], "doc_id")]]

ItemCitations(item) ==
    Concat([n \in 1..Len(JsonPayloads(item)) |->
               PayloadCitations(JsonPayloads(item)[n])])

\* the concatenation of the text fields of the whole stream
ExpectedText(ls) ==
    Concat([n \in 1..Len(ls) |->
       Concat([m \in 1..Len(DeltaItems(ls[n])) |->
          Concat(TextFields(DeltaItems(ls[n])[m]))])])

\* the citations of the whole stream, in arrival order
ExpectedCitations(ls) ==
    Concat([n \in 1..Len(ls) |->
       Concat([m \in 1..Len(DeltaItems(ls[n])) |->
          ItemCitations(DeltaItems(ls[n])[m])])])

\* the call returned the success value
Succeeded(i) == Done(i) /\ inv[i].result.kind = "value"
                /\ inv[i].result.keys = {"text", "citations"}

\* Hiragana, Katakana (with its phonetic extensions and halfwidth forms)
\* and Kanji (CJK unified ideographs and extension A) in Unicode
IsJapaneseScript(c) ==
    \/ (12352 <= c /\ c <= 12447)      \* U+3040-309F Hiragana
    \/ (12448 <= c /\ c <= 12543)      \* U+30A0-30FF Katakana
    \/ (12784 <= c /\ c <= 12799)      \* U+31F0-31FF Katakana Phonetic Ext.
    \/ (65382 <= c /\ c <= 65439)      \* U+FF66-FF9F Halfwidth Katakana
    \/ (19968 <= c /\ c <= 40959)      \* U+4E00-9FFF CJK Unified Ideographs
    \/ (13312 <= c /\ c <= 19903)      \* U+3400-4DBF CJK Extension A

HasJapaneseScript(q) == \E n \in 1..Len(q) : IsJapaneseScript(q[n])

(***************************************************************************)
(* C1.  run_cortex_search never propagates an exception: whenever a call   *)
(* has returned it gave its caller a value, and if an exception occurred   *)
(* after the network phase started (connect failure, timeout, transport    *)
(* error in the stream, exception while decoding a frame) that value is    *)
(* an error-tagged mapping.                                                *)
(***************************************************************************)
C1_NeverPropagates ==
    \A i \in Invs :
        Done(i) => /\ inv[i].result.kind = "value"
                   /\ (inv[i].exc # NoExc => ErrorTagged(inv[i].result))

\* a frame raised KeyError inside the decoder and the call returned the
\* error value
C1_Witness ==
    \E i \in Invs :
        Done(i) /\ inv[i].exc = "KeyError"
                /\ inv[i].result = RequestFailed("KeyError")

(***************************************************************************)
(* C2 as claimed.  After a non-200 status the call returns an error-tagged *)
(* result that embeds the status code, the decoder never ran and exactly   *)
(* one request was issued.                                                 *)
(***************************************************************************)
C2_AsClaimed ==
    \A i \in Invs :
        (Done(i) /\ inv[i].status \notin {0, 200}) =>
            /\ ErrorTagged(inv[i].result)
            /\ inv[i].result.error.fmt = "HTTP"
            /\ inv[i].result.error.code = inv[i].status
            /\ ~inv[i].decoded
            /\ inv[i].requests = 1

(***************************************************************************)
(* C2 as amended.  After a non-200 status the decoder is never run and no  *)
(* second request follows; the call returns an error-tagged result, which  *)
(* embeds the status code and the body when the body was read and decoded, *)
(* and is the generic "Request failed" error when aread() or decode()      *)
(* raised.                                                                 *)
(***************************************************************************)
C2_ErrorStatus ==
    \A i \in Invs :
        inv[i].status \notin {0, 200} =>
            /\ ~inv[i].decoded
            /\ inv[i].requests = 1
            /\ Done(i) =>
                 /\ ErrorTagged(inv[i].result)
                 /\ inv[i].exc = NoExc =>
                        /\ inv[i].result.error.fmt = "HTTP"
                        /\ inv[i].result.error.code = inv[i].status
                 /\ inv[i].exc # NoExc =>
                        inv[i].result = RequestFailed(inv[i].exc)

\* a 500 whose body "x" was read: the result embeds 500 and the body
C2_Witness ==
    \E i \in Invs : Done(i) /\ inv[i].result = HttpError(500, Ch_x)

(***************************************************************************)
(* C3 as claimed.  A query with a Japanese-script character (Hiragana,     *)
(* Katakana, Kanji) never opens a client or issues a request, and the call *)
(* returns the TRANSLATION_REQUIRED response.                              *)
(***************************************************************************)
C3_AsClaimed ==
    \A i \in Invs :
        HasJapaneseScript(inv[i].query) =>
            /\ ~inv[i].client
            /\ inv[i].requests = 0
            /\ Done(i) => inv[i].result = TranslationRequired(inv[i].query)

(***************************************************************************)
(* C4.  The streaming connection and the client are closed on every exit   *)
(* path before the call returns: once the caller has its result, neither   *)
(* is open.                                                                *)
(***************************************************************************)
C4_Released ==
    \A i \in Invs :
        (Done(i) \/ inv[i].result # NoResult) => ~inv[i].conn /\ ~inv[i].client

\* the early return of a non-200 status, after a connection was open
C4_Witness ==
    \E i \in Invs :
        Done(i) /\ inv[i].status = 500 /\ inv[i].ret # NoResult /\ ~inv[i].conn

(***************************************************************************)
(* C5 as claimed.  The decoder raises on no malformed frame: the only      *)
(* exception that ends process_sse_response is a transport error.          *)
(***************************************************************************)
C5_AsClaimed ==
    \A i \in Invs : inv[i].acc.exc # NoExc => inv[i].acc.exc \in TransportExcs

(***************************************************************************)
(* C6 as claimed.  Unparsable frames are skipped silently: as long as the  *)
(* transport has not failed, what the decoder holds after the lines read   *)
(* so far equals its result on those lines with the unparsable frames      *)
(* removed.                                                                *)
(***************************************************************************)
C6_AsClaimed ==
    \A i \in Invs :
        (inv[i].decoded /\ inv[i].acc.exc \notin TransportExcs) =>
            Observed(inv[i].acc)
              = Observed(process_sse_response(RemoveUnparsable(inv[i].lines)))

(***************************************************************************)
(* C7.  Filtering is total: a step that consumes a blank line or a line    *)
(* that does not start with "data:" after trimming leaves the accumulator  *)
(* (text, citations, no exception, no json.loads call) unchanged.          *)
(***************************************************************************)
C7_FilteringTotal ==
    [][\A i \in Invs :
          (Consumes(i) /\ ~HasDataPrefix(Last(inv'[i].lines)))
              => inv'[i].acc = inv[i].acc]_vars

\* text was accumulated and then "DATA:..." (wrong case) was consumed
C7_Witness ==
    \E i \in Invs :
        /\ Len(inv[i].lines) >= 2
        /\ Last(inv[i].lines) = <<68, 65, 84, 65, 58, DocCode(1)>>
        /\ inv[i].acc.text = Ch_A

(***************************************************************************)
(* C8.  A data frame whose payload is empty or [DONE] never produces a     *)
(* delta: the step that consumes it makes no json.loads call and leaves    *)
(* text and citations unchanged, each time it occurs.                      *)
(***************************************************************************)
C8_SentinelNoOp ==
    [][\A i \in Invs :
          (Consumes(i) /\ IsSentinelFrame(Last(inv'[i].lines)))
              => inv'[i].acc = inv[i].acc]_vars

\* [DONE] was consumed twice after a text frame
C8_Witness ==
    \E i \in Invs :
        /\ Len(inv[i].lines) = 3
        /\ IsSentinelFrame(inv[i].lines[2]) /\ inv[i].lines[2] # S_data
        /\ inv[i].lines[3] = inv[i].lines[2]
        /\ inv[i].acc.text = Ch_A /\ inv[i].acc.parses = 1

(***************************************************************************)
(* C9.  The accumulated text never shrinks: every step leaves the old text *)
(* as a prefix of the new one; and the text a successful call returns is   *)
(* the concatenation, in arrival order, of the text fields (empty when     *)
(* missing) of every text item and every json tool-result entry of the     *)
(* deltas of the stream.                                                   *)
(***************************************************************************)
C9_TextAppendOnly ==
    /\ [][\A i \in Invs : IsPrefix(inv[i].acc.text, inv'[i].acc.text)]_vars
    /\ [](\A i \in Invs :
            Succeeded(i) => inv[i].result.text = ExpectedText(inv[i].lines))

\* the tool-result frame (text "B", an item without text, text "C"), then
\* the frame with text "A"
C9_Witness ==
    \E i \in Invs :
        /\ Succeeded(i)
        /\ inv[i].lines = <<DataLine(2), DataLine(1)>>
        /\ inv[i].result.text = <<66, 67, 65>>

(***************************************************************************)
(* C10.  Citations accumulate in arrival order, are never deduplicated or  *)
(* reordered: every step leaves the old list as a prefix of the new one,   *)
(* and the list a successful call returns has one {source_id, doc_id}      *)
(* entry per searchResults entry of every json tool result, in stream      *)
(* order, a missing field being null.                                      *)
(***************************************************************************)
C10_CitationsInOrder ==
    /\ [][\A i \in Invs :
            IsPrefix(inv[i].acc.citations, inv'[i].acc.citations)]_vars
    /\ [](\A i \in Invs :
            Succeeded(i) =>
                inv[i].result.citations = ExpectedCitations(inv[i].lines))

\* the tool-result frame twice: two identical pairs and one entry without
\* source_id, then the same three again
C10_Witness ==
    \E i \in Invs :
        /\ Succeeded(i)
        /\ inv[i].lines = <<DataLine(2), DataLine(2)>>
        /\ Len(inv[i].result.citations) = 6
        /\ inv[i].result.citations[1] = inv[i].result.citations[2]
        /\ inv[i].result.citations[3].source_id = JNull
        /\ inv[i].result.citations[4] = inv[i].result.citations[1]


(***************************************************************************)
(* C11.  The search-only decoder discards any SQL field: whenever          *)
(* process_sse_response has returned, also for a stream whose tool results *)
(* carry a sql field, the second component of the returned tuple is the    *)
(* empty string.                                                           *)
(***************************************************************************)
\* some json payload of the stream has a sql field
CarriesSql(ls) ==
    \E n \in 1..Len(ls) : \E m \in 1..Len(DeltaItems(ls[n])) :
        LET item == DeltaItems(ls[n])[m] IN
        /\ IsDict(item) /\ HasTag(item, S_tool_results)
        /\ \E k \in 1..Len(JsonPayloads(item)) :
               "sql" \in DOMAIN JsonPayloads(item)[k].f

C11_SqlDiscarded ==
    \A i \in Invs : inv[i].tuple.set => inv[i].tuple.sql = << >>

\* the decoder returned after a stream that carried sql "S" in a tool result
C11_Witness ==
    \E i \in Invs :
        /\ inv[i].tuple.set /\ inv[i].tuple.sql = << >>
        /\ CarriesSql(inv[i].lines)
        /\ inv[i].tuple.text = <<66, 67>>

(***************************************************************************)
(* C12.  The search-only operation omits sql and results from what it      *)
(* returns: a call whose decoder returned normally gives exactly the       *)
(* fields text and citations, and no returned mapping of any kind          *)
(* (success, error, translation-required) has a sql or a results field.    *)
(***************************************************************************)
C12_NoSqlNoResults ==
    \A i \in Invs :
        /\ inv[i].result.kind = "value" =>
               inv[i].result.keys \cap {"sql", "results"} = {}
        /\ (Done(i) /\ inv[i].tuple.set) =>
               /\ inv[i].result.kind = "value"
               /\ inv[i].result.keys = {"text", "citations"}

\* a successful call on a stream whose tool result carried sql
C12_Witness ==
    \E i \in Invs :
        /\ Done(i) /\ inv[i].tuple.set /\ CarriesSql(inv[i].lines)
        /\ inv[i].result.keys = {"text", "citations"}


(***************************************************************************)
(* C13.  Concurrent invocations are independent: a step of one invocation  *)
(* leaves the state of the other (accumulator, client, connection)         *)
(* untouched, and under every interleaving each call returns what it       *)
(* returns when run alone on its own query, response and stream.           *)
(***************************************************************************)
\* the result of a call run alone, from what its own upstream gave it
AloneResult(s) ==
    IF detect_japanese(s.query) THEN TranslationRequired(s.query)
    ELSE IF ~s.decoded
    THEN IF s.exc # NoExc THEN RequestFailed(s.exc) ELSE s.ret
    ELSE LET a == process_sse_response(s.lines) IN
         IF a.exc # NoExc THEN RequestFailed(a.exc)
         ELSE IF s.exc # NoExc THEN RequestFailed(s.exc)
         ELSE Success(a.text, a.citations)

C13_Independent ==
    /\ [][\A i, j \in Invs :
            (i # j /\ inv'[i] # inv[i]) => inv'[j] = inv[j]]_vars
    /\ [](\A i \in Invs : Done(i) => inv[i].result = AloneResult(inv[i]))

\* both calls ran the decoder and returned different texts
C13_Witness ==
    /\ Succeeded(1) /\ inv[1].result.text = Ch_A
    /\ Succeeded(2) /\ inv[2].result.text = <<66, 67>>
    /\ Len(inv[2].result.citations) = 3 /\ inv[1].result.citations = << >>


(***************************************************************************)
(* C14 as claimed.  Every invocation eventually returns a value, also when *)
(* the upstream never closes the stream and keeps delivering lines: the    *)
(* 60-second timeout bounds the whole call.                                *)
(***************************************************************************)
C14_AsClaimed ==
    \A i \in Invs : (inv[i].pc = "gate") ~> Done(i)


(***************************************************************************)
(* C15.  Each invocation issues at most one outbound HTTP request, the     *)
(* streaming POST: a request that failed is not retried (the call ends     *)
(* with exactly one request issued), and after the decoder returned no     *)
(* further (SQL-execution) request is issued.                              *)
(***************************************************************************)
C15_AtMostOneRequest ==
    \A i \in Invs :
        /\ inv[i].requests <= 1
        /\ inv[i].exc # NoExc => inv[i].requests = 1
        /\ (inv[i].tuple.set \/ inv[i].ret # NoResult) => inv[i].requests = 1

\* the POST failed to connect and the call returned after that one request
C15_Witness ==
    \E i \in Invs :
        /\ Done(i) /\ inv[i].exc = "ConnectError" /\ inv[i].requests = 1
        /\ inv[i].result = RequestFailed("ConnectError")


(***************************************************************************)
(* C16 as claimed.  For a frame that parses as a JSON object the delta     *)
(* used is the top-level delta when that is an object, otherwise           *)
(* data.delta when that is an object; the frame is skipped only when       *)
(* neither is an object, and a delta without content counts as an empty    *)
(* content sequence.  So the step that consumes such a frame runs the      *)
(* content loop on the content of that delta.                              *)
(***************************************************************************)
\* the frame carries a JSON object
IsObjectFrame(l) ==
    /\ IsFrame(l) /\ ~IsUnparsable(l)
    /\ IsDict(json_loads(FramePayload(l)).v)

NoDelta == [found |-> FALSE]

\* the delta of an object evt as the claim chooses it
ClaimedDelta(evt) ==
    LET top  == DictGet(evt, "delta", JNull)
        data == DictGet(evt, "data", JNull)
    IN  IF IsDict(top) THEN [found |-> TRUE, delta |-> top]
        ELSE IF IsDict(data) /\ IsDict(DictGet(data, "delta", JNull))
        THEN [found |-> TRUE, delta |-> DictGet(data, "delta", JNull)]
        ELSE NoDelta

\* the accumulator after a frame whose delta is chosen as claimed
ClaimedStep(acc, evt) ==
    LET d == ClaimedDelta(evt) IN
    IF ~d.found THEN acc
    ELSE LET content == DictGet(d.delta, "content", JArr(<< >>)) IN
         IF ~Iterable(content) THEN acc
         ELSE ContentLoop(acc, IterItems(content))

C16_AsClaimed ==
    [][\A i \in Invs :
          (Consumes(i) /\ IsObjectFrame(Last(inv'[i].lines))) =>
              Observed(inv'[i].acc)
                = Observed(ClaimedStep(inv[i].acc,
                              json_loads(FramePayload(Last(inv'[i].lines))).v))]_vars


(***************************************************************************)
(* C17.  Content items tagged neither text nor tool_results, and           *)
(* tool-result entries not tagged json, are ignored: each of them leaves   *)
(* the accumulator as it is, and the step that consumes their frame adds   *)
(* exactly what the remaining items of the delta contribute, those after   *)
(* an ignored item included.                                               *)
(***************************************************************************)
\* a content item of an unknown kind
IsIgnoredItem(item) == ~HasTag(item, S_text) /\ ~HasTag(item, S_tool_results)

IsKeptItem(item) == ~IsIgnoredItem(item)

\* the entries of a tool_results item that are not tagged json
IgnoredEntries(item) ==
    IF ~HasTag(item, S_tool_results) THEN << >>
    ELSE LET es == DictGet(item.f["tool_results"], "content", JArr(<< >>)).e
             Skipped(x) == ~IsJsonEntry(x)
         IN  SelectSeq(es, Skipped)

\* the text and the citations the kept items contribute
KeptText(items) ==
    Concat([m \in 1..Len(SelectSeq(items, IsKeptItem)) |->
               Concat(TextFields(SelectSeq(items, IsKeptItem)[m]))])

KeptCitations(items) ==
    Concat([m \in 1..Len(SelectSeq(items, IsKeptItem)) |->
               ItemCitations(SelectSeq(items, IsKeptItem)[m])])

C17_UnknownIgnored ==
    [][\A i \in Invs :
          (Consumes(i) /\ inv'[i].acc.exc = NoExc) =>
              LET items == DeltaItems(Last(inv'[i].lines)) IN
              /\ \A m \in 1..Len(items) :
                    /\ IsIgnoredItem(items[m]) =>
                           ProcessItem(inv[i].acc, items[m]) = inv[i].acc
                    /\ \A k \in 1..Len(IgnoredEntries(items[m])) :
                           ProcessResult(inv[i].acc, IgnoredEntries(items[m])[k])
                             = inv[i].acc
              /\ inv'[i].acc.text = inv[i].acc.text \o KeptText(items)
              /\ inv'[i].acc.citations
                   = inv[i].acc.citations \o KeptCitations(items)]_vars

\* JSON text 2 was consumed: an "i" entry before the json entry, a "t" item
\* before the two text items; text "B" and "C" and three citations arrived
C17_Witness ==
    \E i \in Invs :
        /\ inv[i].lines = <<DataLine(2)>>
        /\ \E m \in 1..Len(DeltaItems(DataLine(2))) :
               IsIgnoredItem(DeltaItems(DataLine(2))[m])
        /\ Len(IgnoredEntries(DeltaItems(DataLine(2))[1])) = 1
        /\ inv[i].acc.text = <<66, 67>>
        /\ Len(inv[i].acc.citations) = 3

(***************************************************************************)
(* C18.  A failure in the middle of the stream is all-or-nothing: a call   *)
(* whose decoder was ended by an exception returns the error result alone, *)
(* whatever text and citations were accumulated before, and no returned    *)
(* value holds an error field next to a text or citations field.           *)
(***************************************************************************)
C18_AllOrNothing ==
    \A i \in Invs :
        Done(i) =>
            /\ (inv[i].decoded /\ inv[i].exc # NoExc) =>
                   /\ inv[i].result = RequestFailed(inv[i].exc)
                   /\ inv[i].result.keys = {"error"}
            /\ (inv[i].result.kind = "value" /\ "error" \in inv[i].result.keys)
                   => inv[i].result.keys \cap {"text", "citations"} = {}

\* the connection was lost after the tool-result frame had given text and
\* citations; the caller got the error alone
C18_Witness ==
    \E i \in Invs :
        /\ Done(i)
        /\ inv[i].lines = <<DataLine(2)>>
        /\ inv[i].exc = "ReadError"
        /\ inv[i].acc.text = <<66, 67>> /\ Len(inv[i].acc.citations) = 3
        /\ inv[i].result = RequestFailed("ReadError")

(***************************************************************************)
(* C19.  The [DONE] sentinel does not end decoding: the step that consumes *)
(* it leaves the decoder reading, and a frame consumed after a [DONE] line *)
(* is accumulated exactly as it would be without the sentinel before it.   *)
(***************************************************************************)
\* a data line whose payload is the literal [DONE]
IsDoneFrame(l) ==
    HasDataPrefix(l) /\ FramePayload(l) = <<91, 68, 79, 78, 69, 93>>

SeenDone(ls) == \E n \in 1..Len(ls) : IsDoneFrame(ls[n])

C19_DoneDoesNotEnd ==
    [][\A i \in Invs :
          Consumes(i) =>
              /\ IsDoneFrame(Last(inv'[i].lines)) =>
                     /\ inv'[i].pc = "stream"
                     /\ ~inv'[i].tuple.set
              /\ (SeenDone(inv[i].lines) /\ inv'[i].acc.exc = NoExc) =>
                     /\ inv'[i].acc.text
                          = inv[i].acc.text
                              \o ExpectedText(<<Last(inv'[i].lines)>>)
                     /\ inv'[i].acc.citations
                          = inv[i].acc.citations
                              \o ExpectedCitations(<<Last(inv'[i].lines)>>)]_vars

\* [DONE] came first; the text frame and the tool-result frame after it
\* were accumulated and returned
C19_Witness ==
    \E i \in Invs :
        /\ Succeeded(i)
        /\ Len(inv[i].lines) = 3
        /\ IsDoneFrame(inv[i].lines[1])
        /\ inv[i].lines[2] = DataLine(1) /\ inv[i].lines[3] = DataLine(2)
        /\ inv[i].result.text = <<65, 66, 67>>
        /\ Len(inv[i].result.citations) = 3

=============================================================================
